---- MODULE Spec2Model ----
(***************************************************************************)
(* Client-side orchestrator of the IFC site generator web UI:              *)
(*   - GeneratorForm   (form constraints, job registry, submission)        *)
(*   - JobTracker      (per-job polling effect)                            *)
(*   - lib/api         (createJob, getJobStatus)                           *)
(*   - AddressAutocomplete (debounced address search)                      *)
(* React state updates made by one handler are batched: a handler, the     *)
(* render it causes and the effects of that render form one action.        *)
(***************************************************************************)
EXTENDS Integers, Sequences, FiniteSets, Bags, TLC

VARIABLES
    form,          \* GeneratorForm: form state (FormState)
    error,         \* GeneratorForm: error banner text (<<>> = null)
    errorTimers,   \* GeneratorForm: pending setTimeout(() => setError(null), 3000)
    isSubmitting,  \* GeneratorForm: isSubmitting
    submitReq,     \* createJob in flight: the address handleSubmit read (<<>> when none)
    secretMode,    \* Home: secretModeActive, passed as GeneratorForm's prop
    activeJobs,    \* GeneratorForm: the job registry, newest first
    tracker,       \* JobTracker instance of each job id: mounted, status, error, polling
    interval,      \* JobTracker: the setInterval(pollStatus, 2000) handle is live
    inflight,      \* status requests in flight, each with the server's answer
    server,        \* remote service: state of each job
    notified,      \* of each job id: which of onComplete, onError have been invoked
    suggestions,   \* AddressAutocomplete: suggestions (results of a query)
    isLoading,     \* AddressAutocomplete: isLoading
    isFocused,     \* AddressAutocomplete: isFocused
    selectedIndex, \* AddressAutocomplete: selectedIndex (0-based, -1 = none)
    debounce,      \* AddressAutocomplete: the queries of the pending debounce timers
    searches,      \* address searches in flight (their queries)
    lastIssued,    \* the query of the most recently issued search request
    lastTyped,     \* the query of the most recent handleSearch call
    cleared,       \* a shown suggestion list was emptied and no query of 2 or more
                   \* characters has been typed since
    ev             \* the handler that ran last and what it did

vars == <<form, error, errorTimers, isSubmitting, submitReq, secretMode,
          activeJobs, tracker, interval, inflight, server, notified,
          suggestions, isLoading, isFocused, selectedIndex, debounce, searches,
          lastIssued, lastTyped, cleared, ev>>

formVars == <<form, error, errorTimers, isSubmitting, submitReq, secretMode>>
jobVars == <<activeJobs, tracker, interval, inflight, server, notified>>
searchVars == <<suggestions, isLoading, isFocused, selectedIndex, debounce, searches,
                lastIssued, lastTyped, cleared>>

(***************************************************************************)
(* Bounds                                                                  *)
(***************************************************************************)
MaxJobs == 2
MaxInFlight == 2
MaxErrorTimers == 1
MaxSubmissions == 1
MaxRegistry == 2
MaxPathLen == 3

JobIds == 1..MaxJobs

(***************************************************************************)
(* Strings are sequences of words, so that String.includes and             *)
(* toLowerCase are computed, not assumed.                                  *)
(***************************************************************************)
NoText == <<>>

LowerWord(w) ==
    CASE w = "Not" -> "not"
      [] w = "Found" -> "found"
      [] w = "Job" -> "job"
      [] OTHER -> w

toLowerCase(s) == [i \in DOMAIN s |-> LowerWord(s[i])]

includes(s, needle) ==
    \E i \in 0..(Len(s) - Len(needle)) :
        \A k \in 1..Len(needle) : s[i + k] = needle[k]

(***************************************************************************)
(* JSON values and HTTP responses of the remote service                    *)
(***************************************************************************)
JUndefined == [t |-> "undefined", s |-> NoText, n |-> 0]
JNull == [t |-> "null", s |-> NoText, n |-> 0]
JObject == [t |-> "object", s |-> NoText, n |-> 0]
JStr(words) == [t |-> "string", s |-> words, n |-> 0]
JNum(k) == [t |-> "number", s |-> NoText, n |-> k]
JBool(b) == [t |-> "boolean", s |-> NoText, n |-> IF b THEN 1 ELSE 0]

\* String(value) of a number or a boolean
String(value) ==
    IF value.t = "number" THEN <<ToString(value.n)>>
    ELSE IF value.n = 1 THEN <<"true">> ELSE <<"false">>

\* a || b on strings: the empty string and undefined are falsy
OrElse(a, b) == IF a = NoText THEN b ELSE a

\* body.kind: "text" (not JSON), "null" (the JSON value null), "json" (an object)
JsonBody(detail, status, err, jobId) ==
    [kind |-> "json", detail |-> detail, status |-> status, error |-> err, job_id |-> jobId]
TextBody == [kind |-> "text", detail |-> NoText, status |-> "", error |-> JUndefined, job_id |-> 0]
NullBody == [kind |-> "null", detail |-> NoText, status |-> "", error |-> JUndefined, job_id |-> 0]

Http(code, body) == [net |-> TRUE, code |-> code, body |-> body]
NetworkFailure == [net |-> FALSE, code |-> 0, body |-> TextBody]

Threw(name, message) ==
    [threw |-> TRUE, name |-> name, message |-> message,
     status |-> "", error |-> NoText, job_id |-> 0]
Returned(status, err, jobId) ==
    [threw |-> FALSE, name |-> "", message |-> NoText,
     status |-> status, error |-> err, job_id |-> jobId]

UnknownError == <<"Unknown", "error">>
FailedToFetch == <<"Failed", "to", "fetch">>
UnexpectedToken == <<"Unexpected", "token">>
CannotReadNull == <<"Cannot", "read", "properties", "of", "null">>
CannotConnect == <<"Cannot", "connect", "to", "API">>

ensureString(value) ==
    IF value.t \in {"null", "undefined"} THEN NoText
    ELSE IF value.t = "string" THEN value.s
    ELSE IF value.t = "object" THEN NoText
    ELSE String(value)

\* if (!response.ok) { const error = await response.json().catch(() => ({detail:
\* 'Unknown error'})); throw new Error(error.detail || `HTTP ${response.status}`) }
notOkError(response) ==
    CASE response.body.kind = "text" -> Threw("Error", UnknownError)
      [] response.body.kind = "null" -> Threw("TypeError", CannotReadNull)
      [] OTHER ->
            Threw("Error", OrElse(response.body.detail, <<"HTTP", ToString(response.code)>>))

responseOk(response) == response.code >= 200 /\ response.code <= 299

getJobStatus(response) ==
    IF ~response.net THEN Threw("TypeError", FailedToFetch)
    ELSE IF ~responseOk(response) THEN notOkError(response)
    ELSE CASE response.body.kind = "text" -> Threw("SyntaxError", UnexpectedToken)
           [] response.body.kind = "null" -> Threw("TypeError", CannotReadNull)
           [] OTHER ->
                Returned(response.body.status, ensureString(response.body.error), 0)

createJob(response) ==
    LET r == IF ~response.net THEN Threw("TypeError", FailedToFetch)
             ELSE IF ~responseOk(response) THEN notOkError(response)
             ELSE CASE response.body.kind = "text" -> Threw("SyntaxError", UnexpectedToken)
                    [] OTHER -> Returned("", NoText, response.body.job_id)
    IN  IF r.threw /\ r.name = "TypeError" THEN Threw("Error", CannotConnect) ELSE r

\* line 65, when NEXT_PUBLIC_API_URL is not set
API_URL == "http://localhost:8080"

\* !value: undefined, null, the empty string, 0 and false are falsy
Falsy(value) ==
    \/ value.t \in {"undefined", "null"}
    \/ value.t = "string" /\ value.s = NoText
    \/ value.t \in {"number", "boolean"} /\ value.n = 0

\* `${value}` of a value that is not undefined or null
TemplateText(value) ==
    IF value.t = "string" THEN value.s
    ELSE IF value.t = "object" THEN <<"[object Object]">>
    ELSE String(value)

\* getDownloadUrl without the typeof test
getDownloadUrlOfTruthy(path) ==
    IF Falsy(path) THEN <<"#">> ELSE <<API_URL>> \o TemplateText(path)

\* lines 170-176; at run time path can be any value the caller passes
getDownloadUrl(path) ==
    IF Falsy(path) \/ path.t # "string" THEN <<"#">>
    ELSE <<API_URL>> \o TemplateText(path)


(***************************************************************************)
(* GeneratorForm: limits, derived resolution, feature limit                *)
(***************************************************************************)
MAX_RADIUS == 500
MIN_RADIUS == 50
MAX_RESOLUTION == 15
MIN_RESOLUTION == 2
MAX_FEATURES == 5
\* step="25" of the radius slider (line 991)
RADIUS_STEP == 25

\* a rounding that drops the fraction
MathFloor(num, den) == num \div den

\* Math.round(x) for x = num / den >= 0 is floor(x + 1/2)
MathRound(num, den) == (2 * num + den) \div (2 * den)

getAdaptiveResolution(radius) ==
    IF radius <= 100 THEN 2
    ELSE IF radius <= 200 THEN 5
    ELSE IF radius <= 350 THEN 8
    ELSE MathRound(8 * 150 + (radius - 350) * 7, 150)

\* a slider that hands on what it is given
rangeInputUnbounded(raw) == raw

\* The value of <input type="range" min={MIN_RADIUS} max={MAX_RADIUS}
\* step="25"> when it is asked to take the value raw: the value is brought
\* into [min, max], then to the nearest step counted from min (a tie goes up),
\* never above max.
rangeInputValue(raw) ==
    LET clamped == IF raw < MIN_RADIUS THEN MIN_RADIUS
                   ELSE IF raw > MAX_RADIUS THEN MAX_RADIUS ELSE raw
        k == (2 * (clamped - MIN_RADIUS) + RADIUS_STEP) \div (2 * RADIUS_STEP)
        snapped == MIN_RADIUS + k * RADIUS_STEP
    IN  IF snapped > MAX_RADIUS THEN snapped - RADIUS_STEP ELSE snapped

SecretAddress == "Toblerone 1"

defaultState ==
    [address |-> "",
     includeTerrain |-> TRUE, includeSiteSolid |-> TRUE,
     includeRoads |-> FALSE, includeBuildings |-> FALSE, includeForest |-> FALSE,
     includeWater |-> FALSE, includeRailways |-> FALSE, includeBridges |-> FALSE,
     includeSatellite |-> FALSE, exportGltf |-> FALSE,
     radius |-> 200, resolution |-> 5, outputName |-> "site_model.ifc"]

\* the flags countActiveFeatures reads (lines 630-637)
CountedFlags(state) ==
    <<state.includeRoads, state.includeBuildings, state.includeForest,
      state.includeWater, state.includeRailways, state.includeSatellite>>

countActiveFeatures(state) ==
    Cardinality({i \in 1..Len(CountedFlags(state)) : CountedFlags(state)[i]})

featureKeys ==
    {"includeRoads", "includeBuildings", "includeForest",
     "includeWater", "includeRailways", "includeSatellite"}

\* the FeatureToggle switches of the form (lines 885-940)
toggleKeys == featureKeys \cup {"includeTerrain", "includeSiteSolid"}

FeatureLimitMessage == <<"Maximum", ToString(MAX_FEATURES), "features", "at", "once">>

\* the test off by one
overLimitOffByOne(activeCount) == activeCount > MAX_FEATURES + 1

\* line 656: the test that rejects a toggle
overLimit(activeCount) == activeCount > MAX_FEATURES

\* the order of the feature keys in the array of lines 650-653
FeatureOrder ==
    <<"includeRoads", "includeBuildings", "includeForest",
      "includeWater", "includeRailways", "includeSatellite">>

\* what the comment of line 649 describes: the first enabled feature other
\* than the toggled one is disabled and the toggled one stays enabled
rejectOldest(updated, key) ==
    LET others == {i \in DOMAIN FeatureOrder :
                      FeatureOrder[i] # key /\ updated[FeatureOrder[i]]}
        oldest == CHOOSE i \in others : \A k \in others : i <= k
    IN  IF others = {} THEN updated ELSE [updated EXCEPT ![FeatureOrder[oldest]] = FALSE]

\* line 657: updated[key] = false
rejectToggle(updated, key) == [updated EXCEPT ![key] = FALSE]

\* an updater that starts from the initial form instead of prev
updateFormStateFromDefaults(prev, key, value) ==
    LET u1 == [defaultState EXCEPT ![key] = value]
        u2 == IF key = "radius"
              THEN [u1 EXCEPT !.resolution = getAdaptiveResolution(value)]
              ELSE u1
        rejected == /\ key \in featureKeys
                    /\ value = TRUE
                    /\ overLimit(countActiveFeatures(u2))
    IN  [form |-> IF rejected THEN rejectToggle(u2, key) ELSE u2,
         rejected |-> rejected]

\* the updater passed to setForm by updateForm: the next form and whether the
\* toggle was rejected (setError + setTimeout)
updateFormState(prev, key, value) ==
    LET u1 == [prev EXCEPT ![key] = value]
        u2 == IF key = "radius"
              THEN [u1 EXCEPT !.resolution = getAdaptiveResolution(value)]
              ELSE u1
        rejected == /\ key \in featureKeys
                    /\ value = TRUE
                    /\ overLimit(countActiveFeatures(u2))
    IN  [form |-> IF rejected THEN rejectToggle(u2, key) ELSE u2,
         rejected |-> rejected]

enableRecommendedState(prev) ==
    [prev EXCEPT !.includeRoads = TRUE, !.includeBuildings = TRUE,
                 !.includeForest = TRUE, !.includeWater = TRUE,
                 !.includeRailways = FALSE, !.includeSatellite = FALSE,
                 !.exportGltf = FALSE]

\* the updater of the secret mode effect (lines 602-611)
secretModeState(prev) ==
    [prev EXCEPT !.address = SecretAddress,
                 !.includeRoads = TRUE, !.includeBuildings = TRUE,
                 !.includeForest = TRUE, !.includeWater = TRUE,
                 !.radius = 300, !.resolution = 2]

\* a request that copies the glTF flag of the form as it is
GenerateRequestPlainGltf(f) ==
    [address |-> f.address,
     include_terrain |-> f.includeTerrain,
     include_site_solid |-> f.includeSiteSolid,
     include_roads |-> f.includeRoads,
     include_buildings |-> f.includeBuildings,
     include_forest |-> f.includeForest,
     include_water |-> f.includeWater,
     include_railways |-> f.includeRailways,
     include_bridges |-> f.includeBridges,
     include_satellite_overlay |-> f.includeSatellite,
     export_gltf |-> f.exportGltf,
     radius |-> f.radius,
     resolution |-> f.resolution,
     output_name |-> f.outputName]

\* the GenerateRequest built by handleSubmit (lines 702-717)
GenerateRequest(f) ==
    [address |-> f.address,
     include_terrain |-> f.includeTerrain,
     include_site_solid |-> f.includeSiteSolid,
     include_roads |-> f.includeRoads,
     include_buildings |-> f.includeBuildings,
     include_forest |-> f.includeForest,
     include_water |-> f.includeWater,
     include_railways |-> f.includeRailways,
     include_bridges |-> f.includeBridges,
     include_satellite_overlay |-> f.includeSatellite,
     export_gltf |-> (f.exportGltf \/ f.includeSatellite),
     radius |-> f.radius,
     resolution |-> f.resolution,
     output_name |-> f.outputName]



(***************************************************************************)
(* Job registry and JobTracker                                             *)
(***************************************************************************)
Statuses == {"pending", "running", "completed", "failed", "expired"}
Terminal == {"completed", "failed", "expired"}

\* useState(null), useState(null), useState(true) of a JobTracker that mounts
Mounted == [mounted |-> TRUE, status |-> "null", error |-> NoText, polling |-> TRUE]
Unmounted == [mounted |-> FALSE, status |-> "null", error |-> NoText, polling |-> FALSE]

ExpiredMessage == <<"Job", "expired", "or", "server", "restarted">>
GenerationFailed == <<"Generation", "failed">>

\* an updater that forgets to compare the job id
handleJobStatusChangeAll(reg, jobId, status) ==
    [i \in DOMAIN reg |-> [reg[i] EXCEPT !.status = status]]

handleJobStatusChange(reg, jobId, status) ==
    [i \in DOMAIN reg |->
        IF reg[i].id = jobId THEN [reg[i] EXCEPT !.status = status] ELSE reg[i]]

KeepsJob(job, jobId) == job.id # jobId

removeJobState(reg, jobId) == SelectSeq(reg, LAMBDA job : KeepsJob(job, jobId))

\* line 1124: the filter of 'Clear completed'
StaysOnClear(job) == job.status = "running" \/ job.status = "pending"

clearCompletedState(reg) == SelectSeq(reg, StaysOnClear)

RegistryIds(reg) == {reg[i].id : i \in DOMAIN reg}

\* a JobTracker is mounted for the registry's jobs only (lines 1133-1163)
reconcile(trk, reg) ==
    [j \in JobIds |->
        IF j \in RegistryIds(reg)
        THEN (IF trk[j].mounted THEN trk[j] ELSE Mounted)
        ELSE Unmounted]

\* line 115: the test that classifies a poll error as not-found
isNotFound(message) ==
    includes(message, <<"404">>) \/ includes(toLowerCase(message), <<"not", "found">>)

\* lines 103, 106, 110: the statuses on which pollStatus calls setPolling(false)
stopsPolling(status) == status \in {"completed", "failed", "expired"}

\* a catch block that marks the tracker expired without telling the registry
notFoundChangesNone == <<>>

\* line 118: onStatusChange?.('expired') in the not-found branch
notFoundChanges == <<"expired">>

\* a tracker that reports every status that ends polling as an error
callbacksForAnyTerminal(status) ==
    IF status = "completed" THEN {"onComplete"}
    ELSE IF status \in {"failed", "expired"} THEN {"onError"}
    ELSE {}

\* lines 103-112: the callback pollStatus invokes after onStatusChange
callbacksFor(status) ==
    IF status = "completed" THEN {"onComplete"}
    ELSE IF status = "failed" THEN {"onError"}
    ELSE {}

\* What pollStatus does with the outcome r of getJobStatus (lines 98-123):
\* the tracker's next status, error and polling, the statuses handed to
\* handleJobStatusChange in order, the callbacks invoked and the argument
\* of onError.
pollStatusSettle(t, r) ==
    IF ~r.threw
    THEN [status |-> r.status,
          error |-> IF r.status = "failed" THEN OrElse(r.error, GenerationFailed)
                    ELSE t.error,
          polling |-> IF stopsPolling(r.status) THEN FALSE ELSE t.polling,
          changes |-> <<r.status>> \o
                      (IF r.status = "completed" THEN <<"completed">>
                       ELSE IF r.status = "failed" THEN <<"failed">>
                       ELSE <<>>),
          called |-> {"onStatusChange"} \cup callbacksFor(r.status),
          message |-> IF r.status = "failed" THEN OrElse(r.error, GenerationFailed)
                      ELSE NoText]
    ELSE IF isNotFound(r.message)
    THEN [status |-> "expired", error |-> ExpiredMessage, polling |-> FALSE,
          changes |-> notFoundChanges, called |-> {"onStatusChange"}, message |-> NoText]
    ELSE [status |-> t.status, error |-> r.message, polling |-> FALSE,
          changes |-> <<>>, called |-> {}, message |-> NoText]

RECURSIVE applyChanges(_, _, _)
applyChanges(reg, jobId, changes) ==
    IF changes = <<>> THEN reg
    ELSE applyChanges(handleJobStatusChange(reg, jobId, Head(changes)), jobId, Tail(changes))

\* the effect without its early return
pollingEffectIgnoresFlag(t) == t.mounted

\* line 95: the polling effect returns early when polling is false
pollingEffectRuns(t) == t.mounted /\ t.polling

\* an effect that returns no cleanup
effectCleanupMissing(iv, S) == iv

\* line 128: the cleanup of the polling effect of the trackers in S
effectCleanup(iv, S) == [j \in JobIds |-> IF j \in S THEN FALSE ELSE iv[j]]

RECURSIVE InFlightCount(_, _)
InFlightCount(infl, S) ==
    IF S = {} THEN 0
    ELSE LET j == CHOOSE k \in S : TRUE
         IN  BagCardinality(infl[j]) + InFlightCount(infl, S \ {j})

\* Of the requests issued for the jobs in S, the ones that will be answered:
\* the model follows at most MaxInFlight requests at a time, the others are
\* issued and never answered.
Answerable(infl, S) ==
    LET room == MaxInFlight - InFlightCount(infl, JobIds)
        n == IF Cardinality(S) < room THEN Cardinality(S) ELSE room
    IN  {A \in SUBSET S : Cardinality(A) = n}

\* getJobStatus(jobId) issued for every job in A: the request reaches the
\* server, whose state decides the answer.
fetchStatus(infl, A, srv) ==
    [j \in JobIds |-> IF j \in A THEN infl[j] (+) SetToBag({srv[j]}) ELSE infl[j]]

\* The statuses the service reports for a job, and "gone": the job is unknown
\* to the service (evicted, or the service restarted).
ServerStates == Statuses \cup {"gone"}

\* op: the handler; job: its job; key, arg: its input; status: the status
\* pollStatus handed to setStatus ("" when none); value: the error field of
\* the status response; issued: the jobs a status
\* request was issued for; called: the JobTracker callbacks invoked; detail:
\* the detail field of the response body; message: the argument of onError;
\* index: the position of the suggestion handed to handleSelect
NoEvent ==
    [op |-> "init", job |-> 0, key |-> "", arg |-> "", status |-> "",
     value |-> JUndefined, issued |-> {}, called |-> {},
     detail |-> NoText, message |-> NoText, index |-> -1]
Event(op, job) == [NoEvent EXCEPT !.op = op, !.job = job]

\* The render that follows a handler: reg and trk are the registry and the
\* trackers the handler leaves, infl the requests still in flight, S the
\* trackers whose polling effect has changed dependencies (every tracker when
\* GeneratorForm renders: its callback props are new functions, line 1152-1154).
Render(reg, trk, infl, srv, S, e) ==
    LET starters == {j \in S : pollingEffectRuns(trk[j])}
        cleaned == effectCleanup(interval, S)
    IN  /\ activeJobs' = reg
        /\ tracker' = trk
        /\ interval' = [j \in JobIds |-> IF j \in starters THEN TRUE ELSE cleaned[j]]
        /\ \E A \in Answerable(infl, starters) : inflight' = fetchStatus(infl, A, srv)
        /\ notified' = [j \in JobIds |->
                           IF e.op = "pollStatus" /\ e.job = j
                           THEN notified[j] \cup (e.called \ {"onStatusChange"})
                           ELSE notified[j]]
        /\ ev' = [e EXCEPT !.issued = starters]

\* GeneratorForm renders and the registry is as it was
RenderForm(e) ==
    /\ Render(activeJobs, tracker, inflight, server, JobIds, e)
    /\ server' = server


(***************************************************************************)
(* The remote service                                                      *)
(***************************************************************************)
OutOfMemory == <<"Out", "of", "memory">>
JobNotFound == <<"Job", "not", "found">>
NoSuchJob == <<"No", "such", "job">>
InternalError == <<"Internal", "error">>
ModuleNotFound == <<"Module", "not", "found">>

StatusBody(status, err) == JsonBody(NoText, status, err, 0)
DetailBody(detail) == JsonBody(detail, "", JUndefined, 0)

\* answers that do not depend on the job: no connection, a server error, a
\* success status with a body that is not JSON
TransportFailures ==
    {NetworkFailure,
     Http(500, DetailBody(InternalError)),
     Http(500, DetailBody(ModuleNotFound)),
     Http(500, TextBody),
     Http(200, TextBody)}

\* HTTP 404: the job is unknown to the service
NotFoundResponses ==
    {Http(404, DetailBody(JobNotFound)),
     Http(404, DetailBody(NoSuchJob)),
     Http(404, DetailBody(NoText)),
     Http(404, TextBody)}

StatusResponses(snap) ==
    (IF snap = "gone" THEN NotFoundResponses
     ELSE IF snap = "failed"
          THEN {Http(200, StatusBody(snap, e)) : e \in {JUndefined, JStr(OutOfMemory)}}
          ELSE {Http(200, StatusBody(snap, JUndefined))})
    \cup TransportFailures

\* answers to a submission that make createJob throw: no connection, a
\* rejection with a detail, without one, with a body that is not JSON, with
\* the JSON body null
SubmitFailures ==
    {NetworkFailure, Http(500, DetailBody(InternalError)), Http(503, DetailBody(NoText)),
     Http(502, TextBody), Http(500, NullBody)}

serverNext(state) ==
    CASE state = "pending" -> {"running", "expired", "gone"}
      [] state = "running" -> {"completed", "failed", "expired", "gone"}
      [] state \in Terminal -> {"gone"}
      [] OTHER -> {}

serverAdvance(j, nxt) ==
    /\ nxt \in serverNext(server[j])
    /\ server' = [server EXCEPT ![j] = nxt]
    /\ ev' = Event("server", 0)
    /\ UNCHANGED <<activeJobs, tracker, interval, inflight, notified>>
    /\ UNCHANGED formVars
    /\ UNCHANGED searchVars

\* the two-job specification draws the service's answers from these
PlainStates == {"pending", "running", "completed", "failed", "gone"}

PlainResponses(snap) ==
    IF snap = "gone" THEN {Http(404, DetailBody(JobNotFound))}
    ELSE {Http(200, StatusBody(snap, JUndefined)), NetworkFailure}

\* the values a status response can carry in its error field
ErrorValues ==
    {JUndefined, JNull, JObject, JStr(OutOfMemory), JStr(NoText),
     JNum(0), JNum(507), JBool(TRUE), JBool(FALSE)}

FailedResponses == {Http(200, StatusBody("failed", e)) : e \in ErrorValues}

\* status responses whose status field holds a value outside the five
\* statuses, or is missing ("undefined")
MalformedResponses ==
    {Http(200, StatusBody("queued", JUndefined)), Http(200, StatusBody("undefined", JUndefined))}

TypedResponses(snap) ==
    IF snap = "failed" THEN FailedResponses
    ELSE IF snap = "running" THEN PlainResponses(snap) \cup MalformedResponses
    ELSE PlainResponses(snap)

(***************************************************************************)
(* JobTracker actions                                                      *)
(***************************************************************************)
\* setInterval(pollStatus, 2000) fires
intervalFires(j) ==
    /\ interval[j]
    /\ \E A \in Answerable(inflight, {j}) : inflight' = fetchStatus(inflight, A, server)
    /\ ev' = [Event("interval", j) EXCEPT !.issued = {j}]
    /\ UNCHANGED <<activeJobs, tracker, interval, server, notified>>
    /\ UNCHANGED formVars
    /\ UNCHANGED searchVars

\* getJobStatus settles and pollStatus resumes after its await
pollStatusResume(j, snap, response) ==
    /\ snap \in BagToSet(inflight[j])
    /\  LET o == pollStatusSettle(tracker[j], getJobStatus(response))
            t == IF tracker[j].mounted
                 THEN [tracker[j] EXCEPT !.status = o.status, !.error = o.error,
                                         !.polling = o.polling]
                 ELSE tracker[j]
            e == [Event("pollStatus", j) EXCEPT !.called = o.called,
                                                !.status = IF o.changes # <<>>
                                                           THEN o.status ELSE "",
                                                !.key = IF response.net
                                                        THEN ToString(response.code)
                                                        ELSE "network",
                                                !.arg = response.body.kind,
                                                !.detail = response.body.detail,
                                                !.message = o.message,
                                                !.value = response.body.error]
        IN  /\ Render(applyChanges(activeJobs, j, o.changes),
                      [tracker EXCEPT ![j] = t],
                      [inflight EXCEPT ![j] = @ (-) SetToBag({snap})],
                      server,
                      IF o.changes # <<>> THEN JobIds ELSE {j},
                      e)
            /\ UNCHANGED server
            /\ UNCHANGED formVars
            /\ UNCHANGED searchVars

(***************************************************************************)
(* GeneratorForm actions                                                   *)
(***************************************************************************)
removeJob(jobId) ==
    /\ jobId \in RegistryIds(activeJobs)
    /\ LET reg == removeJobState(activeJobs, jobId)
       IN  Render(reg, reconcile(tracker, reg), inflight, server, JobIds,
                  Event("removeJob", jobId))
    /\ UNCHANGED server
    /\ UNCHANGED formVars
    /\ UNCHANGED searchVars

clearCompleted ==
    /\ Len(activeJobs) > 1
    /\ LET reg == clearCompletedState(activeJobs)
       IN  Render(reg, reconcile(tracker, reg), inflight, server, JobIds,
                  Event("clearCompleted", 0))
    /\ UNCHANGED server
    /\ UNCHANGED formVars
    /\ UNCHANGED searchVars

\* a submit button that is never disabled
submitAlwaysEnabled == TRUE

\* line 1068: the submit button is disabled while isSubmitting
submitEnabled == ~isSubmitting

handleSubmit ==
    /\ submitEnabled
    /\ error' = NoText
    /\ isSubmitting' = TRUE
    /\ submitReq' = <<form.address>>
    /\ RenderForm([Event("handleSubmit", 0) EXCEPT !.arg = GenerateRequest(form)])
    /\ UNCHANGED <<form, errorTimers, secretMode>>
    /\ UNCHANGED searchVars

\* an entry added behind the others
insertJobAtEnd(reg, entry) == Append(reg, entry)

\* lines 721-729: setActiveJobs((prev) => [entry, ...prev])
insertJob(reg, entry) == <<entry>> \o reg

\* createJob resolves with job_id jobId and handleSubmit resumes after its
\* await. A job the service already knows keeps its state there. React keeps
\* one JobTracker per key, so an id the registry already holds gets no second
\* tracker.
submitResolves(jobId) ==
    /\ submitReq # <<>>
    /\ LET result == createJob(Http(200, JsonBody(NoText, "", JUndefined, jobId)))
           reg == insertJob(activeJobs, [id |-> result.job_id, location |-> submitReq[1],
                                         status |-> "pending"])
           srv == IF server[jobId] = "none"
                  THEN [server EXCEPT ![jobId] = "pending"]
                  ELSE server
       IN  /\ ~result.threw
           /\ Render(reg, reconcile(tracker, reg), inflight, srv, JobIds,
                     Event("handleSubmitOk", jobId))
           /\ server' = srv
    /\ form' = [form EXCEPT !.address = ""]
    /\ isSubmitting' = FALSE
    /\ submitReq' = <<>>
    /\ UNCHANGED <<error, errorTimers, secretMode>>
    /\ UNCHANGED searchVars

\* createJob resolves with a job id the service has not used before
handleSubmitOk(jobId) ==
    /\ server[jobId] = "none"
    /\ submitResolves(jobId)

\* createJob rejects: the catch and finally blocks of handleSubmit
handleSubmitFail ==
    /\ submitReq # <<>>
    /\ \E response \in SubmitFailures :
        LET result == createJob(response)
        IN  /\ result.threw
            /\ error' = result.message
            /\ RenderForm([Event("handleSubmitFail", 0) EXCEPT
                            !.key = IF response.net THEN ToString(response.code)
                                    ELSE "network",
                            !.arg = response.body.kind,
                            !.detail = response.body.detail])
    /\ isSubmitting' = FALSE
    /\ submitReq' = <<>>
    /\ UNCHANGED <<form, errorTimers, secretMode>>
    /\ UNCHANGED searchVars

\* updateForm(key, value) called by the control that raises the event e
updateFormBy(key, value, e) ==
    LET r == updateFormState(form, key, value)
    IN  /\ r.rejected => errorTimers < MaxErrorTimers
        /\ form' = r.form
        /\ error' = IF r.rejected THEN FeatureLimitMessage ELSE error
        /\ errorTimers' = IF r.rejected THEN errorTimers + 1 ELSE errorTimers
        /\ RenderForm(e)
        /\ UNCHANGED <<isSubmitting, submitReq, secretMode>>
        /\ UNCHANGED searchVars

updateForm(key, value) ==
    updateFormBy(key, value, [Event("updateForm", 0) EXCEPT !.key = key, !.arg = value])

\* the values the radius slider is asked to take, by dragging, by the keyboard
\* or by a script
RadiusAttempts == {0, 40, 50, 60, 100, 125, 200, 350, 425, 500, 510, 600}

\* lines 988-996: the slider takes a value and its onChange hands
\* Number(e.target.value) to updateForm
changeRadius(raw) ==
    updateFormBy("radius", rangeInputValue(raw),
                 [Event("changeRadius", 0) EXCEPT !.key = "radius", !.arg = raw])

\* a FeatureToggle or the Export glTF checkbox is clicked: onChange(e.target.checked)
clickCheckbox(key) == updateForm(key, ~form[key])

\* setTimeout(() => setError(null), 3000) fires
errorTimerFires ==
    /\ errorTimers > 0
    /\ errorTimers' = errorTimers - 1
    /\ error' = NoText
    /\ IF error # NoText
       THEN RenderForm(Event("errorTimer", 0))
       ELSE /\ ev' = Event("errorTimer", 0)
            /\ UNCHANGED jobVars
    /\ UNCHANGED <<form, isSubmitting, submitReq, secretMode>>
    /\ UNCHANGED searchVars

enableRecommended ==
    /\ ~secretMode
    /\ form' = enableRecommendedState(form)
    /\ RenderForm(Event("enableRecommended", 0))
    /\ UNCHANGED <<error, errorTimers, isSubmitting, submitReq, secretMode>>
    /\ UNCHANGED searchVars

\* Home sets secretModeActive; the effect of lines 598-613 runs
activateSecretMode ==
    /\ ~secretMode
    /\ secretMode' = TRUE
    /\ form' = secretModeState(form)
    /\ RenderForm(Event("secretMode", 0))
    /\ UNCHANGED <<error, errorTimers, isSubmitting, submitReq>>
    /\ UNCHANGED searchVars


(***************************************************************************)
(* AddressAutocomplete                                                     *)
(***************************************************************************)
Suggestion(label, lat, lon) == [label |-> label, lat |-> lat, lon |-> lon]

\* what the geocoding service holds for a query
Catalog(query) ==
    CASE query = "Bern" ->
            <<Suggestion("Bernstrasse 1 Bern", 46, 7), Suggestion("Bernweg 2 Bern", 47, 8)>>
      [] query = "Bundesplatz" -> <<Suggestion("Bundesplatz 3 Bern", 46, 7)>>
      [] OTHER -> <<>>

\* the values the user types into the address input
TypedValues == {"", "B", "Bern", "Bundesplatz"}

\* a test that only stops the empty query
tooShortOnlyEmpty(query) == query = ""

tooShort(query) == query = "" \/ Len(query) < 2

\* reached: the fetch settled with response.ok; otherwise the catch or the
\* !response.ok branch returns []
searchSwissAddresses(query, reached) ==
    IF tooShort(query) THEN <<>>
    ELSE IF reached THEN Catalog(query) ELSE <<>>

\* a keystroke that leaves the pending timer running
clearTimeoutSkipped(pending) == pending

\* line 73-75: a new keystroke clears the pending debounce timer
clearTimeoutOf(pending) == <<>>

handleSearch(query) ==
    IF tooShort(query)
    THEN /\ debounce' = clearTimeoutOf(debounce)
         /\ suggestions' = <<>>
         /\ UNCHANGED isLoading
    ELSE /\ debounce' = Append(clearTimeoutOf(debounce), query)
         /\ isLoading' = TRUE
         /\ UNCHANGED suggestions

handleInputChange(newValue) ==
    /\ newValue # form.address
    /\ form' = [form EXCEPT !.address = newValue]
    /\ handleSearch(newValue)
    /\ lastTyped' = newValue
    /\ cleared' = IF tooShort(newValue) THEN (cleared \/ suggestions # <<>>) ELSE FALSE
    /\ RenderForm([Event("handleInputChange", 0) EXCEPT !.key = newValue,
                                                         !.arg = debounce])
    /\ UNCHANGED <<error, errorTimers, isSubmitting, submitReq, secretMode>>
    /\ UNCHANGED <<isFocused, selectedIndex, searches, lastIssued>>

\* the 300 ms debounce timer fires: searchSwissAddresses(query) issues its fetch
debounceFires ==
    /\ debounce # <<>>
    /\ searches' = searches \cup {Head(debounce)}
    /\ lastIssued' = Head(debounce)
    /\ debounce' = Tail(debounce)
    /\ ev' = [Event("debounce", 0) EXCEPT !.key = Head(debounce)]
    /\ UNCHANGED <<suggestions, isLoading, isFocused, selectedIndex, lastTyped, cleared>>
    /\ UNCHANGED formVars
    /\ UNCHANGED jobVars

\* the results of a search are applied (lines 84-87)
applyResults(query, results) == results

searchSettles(query, reached) ==
    /\ query \in searches
    /\ searches' = searches \ {query}
    /\ suggestions' = applyResults(query, searchSwissAddresses(query, reached))
    /\ isLoading' = FALSE
    /\ selectedIndex' = -1
    /\ ev' = [Event("searchSettles", 0) EXCEPT !.key = query]
    /\ UNCHANGED <<isFocused, debounce, lastIssued, lastTyped, cleared>>
    /\ UNCHANGED formVars
    /\ UNCHANGED jobVars

\* a handleSelect that leaves the dropdown as it is
handleSelectKeepsList(index, how) ==
    /\ form' = [form EXCEPT !.address = suggestions[index + 1].label]
    /\ UNCHANGED suggestions
    /\ isFocused' = FALSE
    /\ RenderForm([Event("handleSelect", 0) EXCEPT !.key = how, !.index = index,
                                                   !.arg = suggestions[index + 1]])
    /\ UNCHANGED <<error, errorTimers, isSubmitting, submitReq, secretMode>>
    /\ UNCHANGED <<isLoading, selectedIndex, debounce, searches, lastIssued, lastTyped>>
    /\ cleared' = TRUE

\* lines 99-105: onChange(suggestion.label), onSelect(suggestion),
\* setSuggestions([]), setIsFocused(false); arg is the suggestion handed to onSelect
handleSelect(index, how) ==
    /\ form' = [form EXCEPT !.address = suggestions[index + 1].label]
    /\ suggestions' = <<>>
    /\ isFocused' = FALSE
    /\ RenderForm([Event("handleSelect", 0) EXCEPT !.key = how, !.index = index,
                                                   !.arg = suggestions[index + 1]])
    /\ UNCHANGED <<error, errorTimers, isSubmitting, submitReq, secretMode>>
    /\ UNCHANGED <<isLoading, selectedIndex, debounce, searches, lastIssued, lastTyped>>
    /\ cleared' = TRUE

showSuggestions == isFocused /\ (Len(suggestions) > 0 \/ isLoading)

\* a suggestion of the dropdown is clicked (the list is rendered when not loading)
clickSuggestion(index) ==
    /\ showSuggestions
    /\ ~isLoading
    /\ index + 1 \in DOMAIN suggestions
    /\ handleSelect(index, "click")

onMouseEnter(index) ==
    /\ showSuggestions
    /\ ~isLoading
    /\ index + 1 \in DOMAIN suggestions
    /\ selectedIndex' = index
    /\ ev' = Event("onMouseEnter", 0)
    /\ UNCHANGED <<suggestions, isLoading, isFocused, debounce, searches, lastIssued, lastTyped, cleared>>
    /\ UNCHANGED formVars
    /\ UNCHANGED jobVars

Keys == {"ArrowDown", "ArrowUp", "Enter", "Escape"}

handleKeyDown(key) ==
    /\ isFocused
    /\ Len(suggestions) > 0
    /\ CASE key = "ArrowDown" ->
               /\ selectedIndex' = IF selectedIndex < Len(suggestions) - 1
                                   THEN selectedIndex + 1 ELSE selectedIndex
               /\ ev' = [Event("handleKeyDown", 0) EXCEPT !.key = key]
               /\ UNCHANGED <<suggestions, isLoading, isFocused, debounce, searches,
                              lastIssued, lastTyped, cleared>>
               /\ UNCHANGED formVars
               /\ UNCHANGED jobVars
         [] key = "ArrowUp" ->
               /\ selectedIndex' = IF selectedIndex > 0 THEN selectedIndex - 1 ELSE -1
               /\ ev' = [Event("handleKeyDown", 0) EXCEPT !.key = key]
               /\ UNCHANGED <<suggestions, isLoading, isFocused, debounce, searches,
                              lastIssued, lastTyped, cleared>>
               /\ UNCHANGED formVars
               /\ UNCHANGED jobVars
         [] key = "Enter" ->
               /\ selectedIndex >= 0
               /\ selectedIndex + 1 \in DOMAIN suggestions
               /\ handleSelect(selectedIndex, "Enter")
         [] OTHER ->
               /\ suggestions' = <<>>
               /\ isFocused' = FALSE
               /\ ev' = [Event("handleKeyDown", 0) EXCEPT !.key = key]
               /\ UNCHANGED <<isLoading, selectedIndex, debounce, searches, lastIssued, lastTyped>>
               /\ cleared' = TRUE
               /\ UNCHANGED formVars
               /\ UNCHANGED jobVars

handleClickOutside ==
    /\ suggestions' = <<>>
    /\ isFocused' = FALSE
    /\ ev' = Event("handleClickOutside", 0)
    /\ UNCHANGED <<isLoading, selectedIndex, debounce, searches, lastIssued, lastTyped>>
    /\ cleared' = (cleared \/ suggestions # <<>>)
    /\ UNCHANGED formVars
    /\ UNCHANGED jobVars

onFocus ==
    /\ ~isFocused
    /\ isFocused' = TRUE
    /\ ev' = Event("onFocus", 0)
    /\ UNCHANGED <<suggestions, isLoading, selectedIndex, debounce, searches, lastIssued, lastTyped, cleared>>
    /\ UNCHANGED formVars
    /\ UNCHANGED jobVars

\* the X button of the input (lines 184-195)
clickClear ==
    /\ form.address # ""
    /\ form' = [form EXCEPT !.address = ""]
    /\ suggestions' = <<>>
    /\ isFocused' = TRUE
    /\ RenderForm(Event("clickClear", 0))
    /\ UNCHANGED <<error, errorTimers, isSubmitting, submitReq, secretMode>>
    /\ UNCHANGED <<isLoading, selectedIndex, debounce, searches, lastIssued, lastTyped>>
    /\ cleared' = (cleared \/ suggestions # <<>>)

(***************************************************************************)
(* Specifications                                                          *)
(***************************************************************************)
InitWith(e) ==
    /\ form = defaultState
    /\ error = NoText
    /\ errorTimers = 0
    /\ isSubmitting = FALSE
    /\ submitReq = <<>>
    /\ secretMode = FALSE
    /\ activeJobs = <<>>
    /\ tracker = [j \in JobIds |-> Unmounted]
    /\ interval = [j \in JobIds |-> FALSE]
    /\ inflight = [j \in JobIds |-> EmptyBag]
    /\ server = [j \in JobIds |-> "none"]
    /\ notified = [j \in JobIds |-> {}]
    /\ suggestions = <<>>
    /\ isLoading = FALSE
    /\ isFocused = FALSE
    /\ selectedIndex = -1
    /\ debounce = <<>>
    /\ searches = {}
    /\ lastIssued = ""
    /\ lastTyped = ""
    /\ cleared = FALSE
    /\ ev = e

Init == InitWith(NoEvent)

\* MaxSubmissions jobs, every answer of the service, one form control being
\* edited
Submitted == {j \in JobIds : server[j] # "none"}

Next ==
    \/ handleSubmit
    \/ \E j \in JobIds : Cardinality(Submitted) < MaxSubmissions /\ handleSubmitOk(j)
    \/ \E j \in JobIds : \E snap \in ServerStates : \E response \in StatusResponses(snap) :
            pollStatusResume(j, snap, response)
    \/ \E j \in JobIds : intervalFires(j)
    \/ \E j \in JobIds : removeJob(j)
    \/ \E j \in JobIds : \E nxt \in ServerStates : serverAdvance(j, nxt)
    \/ clickCheckbox("includeRoads")

Spec == Init /\ [][Next]_vars

\* Several jobs in the registry, the service's plain answers
NextJobs ==
    \/ handleSubmit
    \/ \E j \in JobIds : handleSubmitOk(j)
    \/ \E j \in JobIds : \E snap \in PlainStates : \E response \in PlainResponses(snap) :
            pollStatusResume(j, snap, response)
    \/ \E j \in JobIds : intervalFires(j)
    \/ \E j \in JobIds : removeJob(j)
    \/ clearCompleted
    \/ \E j \in JobIds : \E nxt \in PlainStates : serverAdvance(j, nxt)

SpecJobs == Init /\ [][NextJobs]_vars

\* The form: every control, the Recommended preset, secret mode, submission
NextForm ==
    \/ \E key \in featureKeys \cup {"exportGltf"} : clickCheckbox(key)
    \/ enableRecommended
    \/ activateSecretMode
    \/ errorTimerFires
    \/ handleSubmit
    \/ handleSubmitFail

SpecForm == Init /\ [][NextForm]_vars

\* updateForm applied to the feature flags with either value
NextToggle ==
    \/ \E key \in toggleKeys : \E value \in BOOLEAN : updateForm(key, value)
    \/ errorTimerFires

SpecToggle == Init /\ [][NextToggle]_vars

\* updateForm applied to the feature flags with either value, before and
\* after secret mode has enabled four features on top of the user's own
NextConfig ==
    \/ \E key \in toggleKeys : \E value \in BOOLEAN : updateForm(key, value)
    \/ activateSecretMode
    \/ errorTimerFires

SpecConfig == Init /\ [][NextConfig]_vars

\* One job whose failure the service reports with every kind of error value
\* and whose progress it may report with a status the client does not know
NextStatus ==
    \/ handleSubmit
    \/ \E j \in JobIds : Cardinality(Submitted) < MaxSubmissions /\ handleSubmitOk(j)
    \/ \E j \in JobIds : \E snap \in PlainStates : \E response \in TypedResponses(snap) :
            pollStatusResume(j, snap, response)
    \/ \E j \in JobIds : intervalFires(j)
    \/ \E j \in JobIds : \E nxt \in PlainStates : serverAdvance(j, nxt)

SpecStatus == Init /\ [][NextStatus]_vars

\* Submissions that the service accepts, answering a repeated call with the
\* job id it gave before, and submissions that fail
RetryIds == {1}

NextSubmit ==
    \/ handleSubmit
    \/ \E j \in RetryIds : Len(activeJobs) < MaxRegistry /\ submitResolves(j)
    \/ handleSubmitFail
    \/ \E j \in RetryIds : \E snap \in PlainStates : \E response \in PlainResponses(snap) :
            pollStatusResume(j, snap, response)
    \/ \E j \in RetryIds : intervalFires(j)
    \/ \E j \in RetryIds : removeJob(j)
    \/ \E j \in RetryIds : \E nxt \in PlainStates : serverAdvance(j, nxt)

SpecSubmit == Init /\ [][NextSubmit]_vars

\* The radius slider, secret mode and submission
NextRadius ==
    \/ \E raw \in RadiusAttempts : changeRadius(raw)
    \/ activateSecretMode
    \/ handleSubmit
    \/ handleSubmitFail

SpecRadius == Init /\ [][NextRadius]_vars

\* getAdaptiveResolution applied to every radius of the allowed range
NextResolution ==
    \E radius \in MIN_RADIUS..MAX_RADIUS : updateForm("radius", radius)

SpecResolution == Init /\ [][NextResolution]_vars

\* The address search
NextSearch ==
    \/ \E value \in TypedValues : handleInputChange(value)
    \/ debounceFires
    \/ \E query \in TypedValues : \E reached \in BOOLEAN : searchSettles(query, reached)
    \/ \E index \in 0..1 : clickSuggestion(index)
    \/ \E index \in 0..1 : onMouseEnter(index)
    \/ \E key \in Keys : handleKeyDown(key)
    \/ handleClickOutside
    \/ onFocus
    \/ clickClear

SpecSearch == Init /\ [][NextSearch]_vars

\* getDownloadUrl applied to every value a caller can pass as the path:
\* strings of up to MaxPathLen segments, and values that are not strings
PathSegments == {"/jobs", "/1", "/2", "/download", "/gltf"}

RECURSIVE PathsOfLen(_)
PathsOfLen(n) ==
    IF n = 0 THEN {<<>>}
    ELSE {Append(p, seg) : p \in PathsOfLen(n - 1), seg \in PathSegments}

DownloadPaths ==
    {JStr(p) : p \in UNION {PathsOfLen(n) : n \in 0..MaxPathLen}}
    \cup {JUndefined, JNull, JObject, JNum(0), JNum(507), JBool(TRUE), JBool(FALSE)}

InitDownload ==
    \E path \in DownloadPaths :
        InitWith([NoEvent EXCEPT !.op = "download_url", !.value = path])

\* JobTracker renders a download link: href={getDownloadUrl(path)}
renderDownload ==
    /\ ev.op = "download_url"
    /\ ev' = [ev EXCEPT !.op = "getDownloadUrl", !.message = getDownloadUrl(ev.value)]
    /\ UNCHANGED formVars
    /\ UNCHANGED jobVars
    /\ UNCHANGED searchVars

NextDownload == renderDownload

SpecDownload == InitDownload /\ [][NextDownload]_vars


(***************************************************************************)
(* Properties                                                              *)
(***************************************************************************)
RegStatus(reg, j) == reg[CHOOSE i \in DOMAIN reg : reg[i].id = j].status

\* a tracker that has received no response yet shows pending (line 131)
TrackerStatus(t) == IF t.status = "null" THEN "pending" ELSE t.status

Dismissed(j) == server[j] # "none" /\ j \notin RegistryIds(activeJobs)

\* a step of the lifecycle pending -> running -> {completed | failed}, or a
\* forced transition of a non-terminal job to expired
StatusStep(a, b) ==
    \/ a = b
    \/ a = "pending" /\ b \in {"running", "completed", "failed", "expired"}
    \/ a = "running" /\ b \in {"completed", "failed", "expired"}

\* C1: the statuses applied to a job's tracker and to its registry entry follow
\* pending -> running -> {completed | failed}, possibly cut short by expired,
\* and a terminal status is never changed by a later poll response or error.
C1_StatusSequence ==
    [][\A j \in JobIds :
          (j \in RegistryIds(activeJobs) /\ j \in RegistryIds(activeJobs'))
          => /\ StatusStep(RegStatus(activeJobs, j), RegStatus(activeJobs', j))
             /\ StatusStep(TrackerStatus(tracker[j]), TrackerStatus(tracker'[j]))]_vars

\* C2: the suggestion list only ever receives the results of the most recently
\* issued search query.
C2_OnlyLatestQueryApplied ==
    ev.op = "searchSettles" => ev.key = lastIssued

C4_PollingStopsForGood ==
    /\ [](\A j \in JobIds :
            (ev.op = "pollStatus" /\ ev.job = j /\ tracker[j].mounted
                /\ ev.status \in Terminal \cup {""})
            => ~tracker[j].polling)
    /\ [](\A j \in JobIds :
            (tracker[j].mounted /\ ~tracker[j].polling)
            => (~interval[j] /\ j \notin ev.issued))
    /\ [][\A j \in JobIds :
            (tracker[j].mounted /\ ~tracker[j].polling /\ tracker'[j].mounted)
            => ~tracker'[j].polling]_vars

\* the job's poller has stopped and the form was edited afterwards
C4_Witness ==
    \E j \in JobIds :
        /\ tracker[j].mounted /\ ~tracker[j].polling
        /\ ev.op = "updateForm"

IsPollOf(e, j) == e.op = "pollStatus" /\ e.job = j

\* C5: a poll of a non-terminal job answered with HTTP 404, whatever the body,
\* moves the job to expired in its tracker and in the registry, stops polling
\* and does not invoke on-error.
C5_NotFoundExpires ==
    [][\A j \in JobIds :
          (IsPollOf(ev', j) /\ ev'.key = "404" /\ tracker[j].mounted
              /\ TrackerStatus(tracker[j]) \notin Terminal)
          => /\ tracker'[j].status = "expired"
             /\ RegStatus(activeJobs', j) = "expired"
             /\ ~tracker'[j].polling
             /\ ~interval'[j]
             /\ "onError" \notin ev'.called]_vars

\* a poll that failed with a condition other than not-found: no connection, a
\* non-404 error status, a body that cannot be parsed
OtherFailure(e) ==
    \/ e.key = "network"
    \/ e.key = "500"
    \/ e.key = "200" /\ e.arg = "text"

\* C6: a poll that fails with a condition other than not-found leaves the
\* job's status at its last known non-terminal value (never expired), stops
\* polling, shows the error and issues no retry.
C6_OtherErrorKeepsStatus ==
    [][\A j \in JobIds :
          (IsPollOf(ev', j) /\ OtherFailure(ev') /\ tracker[j].mounted
              /\ TrackerStatus(tracker[j]) \notin Terminal)
          => /\ tracker'[j].status = tracker[j].status
             /\ RegStatus(activeJobs', j) = RegStatus(activeJobs, j)
             /\ ~tracker'[j].polling
             /\ ~interval'[j]
             /\ tracker'[j].error # NoText
             /\ j \notin ev'.issued]_vars

\* C7: a status request is issued only when the job's poller starts and when
\* its interval timer fires, by no other event.
C7_RequestsOnlyFromStartOrTimer ==
    \A j \in ev.issued :
        \/ ev.op = "handleSubmitOk" /\ ev.job = j
        \/ ev.op = "interval" /\ ev.job = j

\* C8: a poll response, status change or error of one job issues no status
\* request for another job.
C8_NoRequestForOtherJob ==
    ev.op = "pollStatus" => ev.issued \subseteq {ev.job}

\* the optional features: every flag except terrain and site solid
OptionalFlags(f) ==
    <<f.includeRoads, f.includeBuildings, f.includeForest, f.includeWater,
      f.includeRailways, f.includeBridges, f.includeSatellite, f.exportGltf>>

OptionalCount(f) == Cardinality({i \in 1..Len(OptionalFlags(f)) : OptionalFlags(f)[i]})

RequestAsForm(r) ==
    [defaultState EXCEPT !.includeRoads = r.include_roads,
                         !.includeBuildings = r.include_buildings,
                         !.includeForest = r.include_forest,
                         !.includeWater = r.include_water,
                         !.includeRailways = r.include_railways,
                         !.includeBridges = r.include_bridges,
                         !.includeSatellite = r.include_satellite_overlay,
                         !.exportGltf = r.export_gltf]

C10_OptionalFlagsWithinLimit ==
    /\ OptionalCount(form) <= MAX_FEATURES
    /\ ev.op = "handleSubmit" => OptionalCount(RequestAsForm(ev.arg)) <= MAX_FEATURES


\* C11: in every form state and in every submitted request the resolution is
\* getAdaptiveResolution of the radius.
C11_ResolutionDerivedFromRadius ==
    /\ form.resolution = getAdaptiveResolution(form.radius)
    /\ ev.op = "handleSubmit" => ev.arg.resolution = getAdaptiveResolution(ev.arg.radius)

\* C12: submitting with an empty location field raises a validation error,
\* issues no job-submission request and leaves the registry unchanged.
C12_EmptyLocationRejected ==
    [][(ev'.op = "handleSubmit" /\ form.address = "")
       => (submitReq' = <<>> /\ error' # NoText /\ activeJobs' = activeJobs)]_vars

\* C13: a successful submission inserts exactly one entry, with the returned
\* job id and status pending, at the front of the registry, before any poll
\* response for it was received; the other entries keep order and status.
C13_NewJobAtFront ==
    [][\A j \in JobIds :
          (ev'.op = "handleSubmitOk" /\ ev'.job = j)
          => /\ Len(activeJobs') = Len(activeJobs) + 1
             /\ activeJobs'[1].id = j
             /\ activeJobs'[1].status = "pending"
             /\ Tail(activeJobs') = activeJobs
             /\ tracker'[j].status = "null"
             /\ TrackerStatus(tracker'[j]) = "pending"]_vars

\* a job was accepted while the registry held a job that is no longer pending
C13_Witness ==
    /\ ev.op = "handleSubmitOk"
    /\ Len(activeJobs) = 2
    /\ activeJobs[1].id = ev.job
    /\ activeJobs[2].status \in {"running", "completed"}

\* C14: the registry never holds two entries with the same job id.
C14_NoDuplicateEntries ==
    \A i, k \in DOMAIN activeJobs : i # k => activeJobs[i].id # activeJobs[k].id

\* the message shown for a failed submission: the connectivity message, the
\* detail of the rejection, or the status-coded message
SubmitErrorMessage(key, detail) ==
    IF key = "network" THEN CannotConnect ELSE OrElse(detail, <<"HTTP", key>>)

\* C15: a failed submission (no connection, or a rejection by the service)
\* creates and changes no registry entry, shows the classified error message
\* and resets the submitting flag.
C15_FailedSubmission ==
    [][ev'.op = "handleSubmitFail"
       => /\ activeJobs' = activeJobs
          /\ error' = SubmitErrorMessage(ev'.key, ev'.detail)
          /\ error' # NoText
          /\ ~isSubmitting'
          /\ submitReq' = <<>>]_vars

\* C16: a keystroke inside the debounce window of the previous query cancels
\* that query's timer, so at most one timer is pending and every search
\* request is for the query typed last.
C16_OnlyLastKeystrokeSearches ==
    /\ [](Len(debounce) <= 1)
    /\ [][ev'.op = "handleInputChange"
          => \A i \in DOMAIN debounce' : debounce'[i] = ev'.key]_vars
    /\ [](ev.op = "debounce" => ev.key = lastTyped)
    /\ [][ev'.op = "debounce" => searches' \ searches \subseteq {lastTyped}]_vars

\* "Bundesplatz" was typed while the timer of "Bern" was pending, and only the
\* timer of "Bundesplatz" is left
C16_Witness ==
    /\ ev.op = "handleInputChange"
    /\ ev.key = "Bundesplatz"
    /\ ev.arg = <<"Bern">>
    /\ debounce = <<"Bundesplatz">>

\* C17: a query of fewer than 2 characters issues no search request, cancels
\* the pending debounce timer and empties the suggestion list.
C17_ShortQuery ==
    /\ [][(ev'.op = "handleInputChange" /\ Len(ev'.key) < 2)
          => (debounce' = <<>> /\ suggestions' = <<>> /\ searches' = searches)]_vars
    /\ [](ev.op = "debounce" => Len(ev.key) >= 2)
    /\ [](\A query \in searches : Len(query) >= 2)

\* "B" was typed while the timer of "Bern" was pending
C17_Witness ==
    /\ ev.op = "handleInputChange"
    /\ ev.key = "B"
    /\ ev.arg = <<"Bern">>
    /\ debounce = <<>>
    /\ suggestions = <<>>

\* Math.round(x) for x = num / den, stated without division: the integer n
\* with n - 1/2 <= x < n + 1/2
RoundedIs(num, den, n) ==
    /\ 2 * den * n - den <= 2 * num
    /\ 2 * num < 2 * den * n + den

\* the resolution the design gives for a radius
DerivedAs(r, res) ==
    IF r <= 100 THEN res = 2
    ELSE IF r <= 200 THEN res = 5
    ELSE IF r <= 350 THEN res = 8
    ELSE RoundedIs(8 * 150 + 7 * (r - 350), 150, res)

\* C18: for every integer radius r in [MIN_RADIUS, MAX_RADIUS] the derived
\* resolution is 2 up to 100, 5 up to 200, 8 up to 350 and
\* round(8 + 7 * (r - 350) / 150) above; it is non-decreasing in r, lies in
\* [MIN_RESOLUTION, MAX_RESOLUTION] and is MAX_RESOLUTION at MAX_RADIUS.
C18_DerivedResolution ==
    (ev.op = "updateForm" /\ ev.key = "radius")
    => /\ form.radius = ev.arg
       /\ DerivedAs(form.radius, form.resolution)
       /\ form.resolution >= MIN_RESOLUTION
       /\ form.resolution <= MAX_RESOLUTION
       /\ \A smaller \in MIN_RADIUS..form.radius :
             getAdaptiveResolution(smaller) <= form.resolution
       /\ form.radius = MAX_RADIUS => form.resolution = MAX_RESOLUTION

\* the resolution was derived for the radius of the interpolated range whose
\* quotient lies halfway between two integers
C18_Witness ==
    /\ ev.op = "updateForm" /\ ev.key = "radius"
    /\ form.radius = 425
    /\ form.resolution = 12

\* C19: every radius stored in the form or sent in a request lies in
\* [MIN_RADIUS, MAX_RADIUS]; a change to a value outside the range stores the
\* nearest bound.
C19_RadiusWithinLimits ==
    /\ [](form.radius >= MIN_RADIUS /\ form.radius <= MAX_RADIUS)
    /\ [](ev.op = "handleSubmit"
            => (ev.arg.radius >= MIN_RADIUS /\ ev.arg.radius <= MAX_RADIUS))
    /\ [][ev'.op = "changeRadius"
          => /\ ev'.arg < MIN_RADIUS => form'.radius = MIN_RADIUS
             /\ ev'.arg > MAX_RADIUS => form'.radius = MAX_RADIUS]_vars

\* the slider was asked for a value above the range
C19_Witness ==
    /\ ev.op = "changeRadius"
    /\ ev.arg > MAX_RADIUS
    /\ form.radius = MAX_RADIUS

\* C20: getJobStatus returns a string-typed field unchanged when the response
\* holds a string and undefined for every other value, so the error text of a
\* failed job is the string the service sent or, for any other value, the
\* generic 'Generation failed'.
C20_NonStringsBecomeUndefined ==
    (ev.op = "pollStatus" /\ ev.key = "200" /\ ev.arg = "json"
        /\ ev.status = "failed" /\ tracker[ev.job].mounted)
    => tracker[ev.job].error =
          IF ev.value.t = "string" THEN OrElse(ev.value.s, GenerationFailed)
          ELSE GenerationFailed

\* C21: when a submission or a status request is answered with a non-success
\* status, the message shown is the detail of the body when it carries one and
\* 'HTTP <status>' otherwise (body not JSON, or JSON without a detail); a
\* status poll classified as not-found shows the expiry message instead.
C21_RejectionMessage ==
    /\ (ev.op = "handleSubmitFail" /\ ev.key # "network")
        => error = OrElse(ev.detail, <<"HTTP", ev.key>>)
    /\ (ev.op = "pollStatus" /\ ev.key \notin {"network", "200"}
            /\ ev.status # "expired" /\ tracker[ev.job].mounted)
        => tracker[ev.job].error = OrElse(ev.detail, <<"HTTP", ev.key>>)

\* C29: a failed submission shows the 'Cannot connect to API' message when
\* the request did not reach the service, and only then: an answer with a
\* non-success status is a rejection whatever its body.
C29_ConnectivityOnlyWhenUnreached ==
    ev.op = "handleSubmitFail" => (error = CannotConnect <=> ev.key = "network")

\* C22: a status response of completed invokes onComplete; a response of
\* failed invokes onError with the error message the service supplied, or
\* with 'Generation failed' when it supplied none; onError is invoked for no
\* other status.
C22_CallbacksFollowStatus ==
    ev.op = "pollStatus"
    => /\ ev.status = "completed" => "onComplete" \in ev.called
       /\ ev.status = "failed"
            => /\ "onError" \in ev.called
               /\ ev.message = IF ev.value.t = "string" /\ ev.value.s # NoText
                               THEN ev.value.s ELSE GenerationFailed
       /\ "onError" \in ev.called => ev.status = "failed"

\* the service reported failed without an error message and onError received
\* the generic one
C22_Witness ==
    /\ ev.op = "pollStatus" /\ ev.status = "failed"
    /\ ev.value = JUndefined
    /\ "onError" \in ev.called
    /\ ev.message = GenerationFailed

\* C23: selecting a suggestion, by a click on it or by Enter on the
\* highlighted index, hands that suggestion (its label, latitude and
\* longitude) to the caller, puts its label into the address and leaves the
\* suggestion list empty.
C23_SelectReportsAndClears ==
    [][ev'.op = "handleSelect"
       => /\ ev'.index + 1 \in DOMAIN suggestions
          /\ ev'.key = "Enter" => ev'.index = selectedIndex
          /\ ev'.arg.label = suggestions[ev'.index + 1].label
          /\ ev'.arg.lat = suggestions[ev'.index + 1].lat
          /\ ev'.arg.lon = suggestions[ev'.index + 1].lon
          /\ form'.address = suggestions[ev'.index + 1].label
          /\ suggestions' = <<>>]_vars

\* Enter was pressed on the second suggestion for "Bern"
C23_Witness ==
    /\ ev.op = "handleSelect" /\ ev.key = "Enter" /\ ev.index = 1
    /\ ev.arg = Suggestion("Bernweg 2 Bern", 47, 8)
    /\ form.address = "Bernweg 2 Bern"
    /\ suggestions = <<>>

\* a poll of job j ended in an error, a failed status or the expiry of the job
EndsBadly(e, j) ==
    /\ IsPollOf(e, j)
    /\ \/ e.key # "200"
       \/ e.arg # "json"
       \/ e.status \in {"failed", "expired"}

\* C24: a poll error, a failed status or the expiry of one job leaves the
\* registry status, the tracker status, the tracker error text and the polling
\* flag of every other job unchanged.
C24_OtherJobsUntouched ==
    [][\A j, k \in JobIds :
          (j # k /\ EndsBadly(ev', j))
          => /\ tracker'[k].status = tracker[k].status
             /\ tracker'[k].error = tracker[k].error
             /\ tracker'[k].polling = tracker[k].polling
             /\ k \in RegistryIds(activeJobs)
                  => /\ k \in RegistryIds(activeJobs')
                     /\ RegStatus(activeJobs', k) = RegStatus(activeJobs, k)]_vars

\* job 1 failed while job 2 was running and being polled
C24_Witness ==
    /\ ev.op = "pollStatus" /\ ev.job = 1 /\ ev.status = "failed"
    /\ RegistryIds(activeJobs) = {1, 2}
    /\ RegStatus(activeJobs, 1) = "failed"
    /\ RegStatus(activeJobs, 2) = "running"
    /\ tracker[2].status = "running" /\ tracker[2].polling

\* C25: removeJob(id) removes exactly the entry with that id, leaves the other
\* entries and their order unchanged and issues no request to the service; an
\* entry leaves the registry only when the user dismisses it (Dismiss, Clear
\* finished), never through a poll response, a poll error or a submission.
C25_RemoveOnlyOnDismissal ==
    [][/\ ev'.op = "removeJob"
          => /\ activeJobs' = SelectSeq(activeJobs, LAMBDA job : job.id # ev'.job)
             /\ ev'.issued = {}
             /\ inflight' = inflight
       /\ \A j \in RegistryIds(activeJobs) \ RegistryIds(activeJobs') :
             ev'.op \in {"removeJob", "clearCompleted"}]_vars

\* C26: toggling is idempotent: a toggle applied to the configuration it has
\* just produced, with the same key and value, yields the same configuration
\* and the same outcome (accepted, or rejected with the warning).
C26_ToggleIdempotent ==
    [][(ev'.op = "updateForm" /\ ev'.key \in featureKeys)
       => LET again == updateFormState(form', ev'.key, ev'.arg)
          IN  /\ again.form = form'
              /\ again.rejected = (errorTimers' = errorTimers + 1)
              /\ again.rejected => error' = FeatureLimitMessage]_vars

\* a toggle was rejected with five other features enabled, and the same
\* toggle would be rejected again
C26_Witness ==
    /\ ev.op = "updateForm" /\ ev.key \in featureKeys /\ ev.arg = TRUE
    /\ countActiveFeatures(form) = MAX_FEATURES /\ ~form[ev.key]
    /\ errorTimers > 0
    /\ updateFormState(form, ev.key, ev.arg).rejected

\* the configuration after the toggle (k1, v1) and then the toggle (k2, v2)
ToggleBoth(f, k1, v1, k2, v2) ==
    updateFormState(updateFormState(f, k1, v1).form, k2, v2).form

\* a toggle of the sequence (k1, v1), (k2, v2) is rejected
RejectsOne(f, k1, v1, k2, v2) ==
    \/ updateFormState(f, k1, v1).rejected
    \/ updateFormState(updateFormState(f, k1, v1).form, k2, v2).rejected

C28_DownloadUrl ==
    ev.op = "getDownloadUrl"
    => IF ev.value.t = "string" /\ ev.value.s # NoText
       THEN ev.message = <<API_URL>> \o ev.value.s
       ELSE ev.message = <<"#">>

\* getDownloadUrl was handed the number 507 and returned '#'
C28_Witness ==
    /\ ev.op = "getDownloadUrl"
    /\ ev.value = JNum(507)
    /\ ev.message = <<"#">>

\* C30: for each job onComplete is invoked at most once and onError at most
\* once, also when several requests in flight report a terminal status.
C30_CallbacksAtMostOnce ==
    [][\A j \in JobIds :
          IsPollOf(ev', j) => notified[j] \cap ev'.called = {}]_vars

\* C31: a status response or a poll error that arrives for a job after it has
\* been dismissed neither puts the job back into the registry nor changes the
\* status of an entry that remains: the registry stays exactly as it was.
C31_LateAnswerLeavesRegistry ==
    [][\A j \in JobIds :
          (IsPollOf(ev', j) /\ Dismissed(j)) => activeJobs' = activeJobs]_vars

\* job 1 was dismissed while a request was in flight; the answer 'completed'
\* arrived with job 2 still pending in the registry
C31_Witness ==
    /\ ev.op = "pollStatus" /\ ev.job = 1 /\ ev.status = "completed"
    /\ Dismissed(1)
    /\ RegistryIds(activeJobs) = {2}
    /\ RegStatus(activeJobs, 2) = "pending"

\* C32: once a shown suggestion list has been cleared (a suggestion selected,
\* Escape, a click outside, the clear button, a query shorter than 2
\* characters), it stays empty until a query typed after that returns
\* results: a debounce timer or a request started before never refills it.
C32_ClearedListStaysEmpty ==
    cleared => suggestions = <<>>

\* C33: after every poll response and every poll error, the status stored in
\* the registry entry of every job equals the status held by that job's
\* tracker, a tracker that has received no response counting as pending.
C33_RegistryMirrorsTracker ==
    ev.op = "pollStatus"
    => \A j \in RegistryIds(activeJobs) :
          RegStatus(activeJobs, j) = TrackerStatus(tracker[j])

\* job 1 has expired on a not-found answer while job 2 has had no answer yet
C33_Witness ==
    /\ ev.op = "pollStatus" /\ ev.job = 1 /\ ev.key = "404"
    /\ RegistryIds(activeJobs) = {1, 2}
    /\ RegStatus(activeJobs, 1) = "expired" /\ tracker[1].status = "expired"
    /\ RegStatus(activeJobs, 2) = "pending" /\ tracker[2].status = "null"

\* C34: the status held by a job's tracker and by its registry entry is always
\* one of pending, running, completed, failed, expired: a status response
\* whose status field is missing or holds another value is never stored.
C34_OnlyKnownStatuses ==
    /\ \A j \in JobIds : tracker[j].mounted => TrackerStatus(tracker[j]) \in Statuses
    /\ \A i \in DOMAIN activeJobs : activeJobs[i].status \in Statuses

\* C35: while a submission is in flight (isSubmitting) no second submission
\* request is issued, so at most one createJob call is outstanding, and
\* isSubmitting is false again once the call has settled, with a job id or
\* with an error.
C35_OneSubmissionAtATime ==
    /\ [](isSubmitting <=> submitReq # <<>>)
    /\ [][/\ ev'.op = "handleSubmit" => (~isSubmitting /\ submitReq = <<>>)
          /\ ev'.op \in {"handleSubmitOk", "handleSubmitFail"}
                => (isSubmitting /\ ~isSubmitting' /\ submitReq' = <<>>)]_vars

\* a second submission has failed after the first one created a job
C35_Witness ==
    /\ ev.op = "handleSubmitFail"
    /\ ~isSubmitting /\ submitReq = <<>>
    /\ Len(activeJobs) = 1

\* C36: the loading indicator of the address search is on only while a
\* debounce timer is pending or a search request is in flight; whenever
\* neither is the case the indicator is off.
C36_LoadingOnlyWhileSearching ==
    isLoading => (debounce # <<>> \/ searches # {})

\* C37: the 3000 ms timer started by a rejected toggle clears only the
\* feature-limit warning that started it: when it fires, an error of another
\* kind that was set after the timer started (a submission error) stays.
\* With at most MaxErrorTimers timers pending, a feature-limit warning on
\* display when the timer fires is the one that started it.
C37_TimerClearsOnlyItsWarning ==
    [][ev'.op = "errorTimer" => (error = FeatureLimitMessage \/ error' = error)]_vars

\* C38: in every submitted job request export_gltf is true whenever
\* include_satellite_overlay is true, and equals the form's glTF-export flag
\* otherwise.
C38_GltfFollowsSatellite ==
    ev.op = "handleSubmit"
    => /\ ev.arg.include_satellite_overlay = form.includeSatellite
       /\ ev.arg.include_satellite_overlay => ev.arg.export_gltf
       /\ ~ev.arg.include_satellite_overlay => ev.arg.export_gltf = form.exportGltf

\* a request was submitted with the satellite overlay on and the glTF
\* checkbox off
C38_Witness ==
    /\ ev.op = "handleSubmit"
    /\ form.includeSatellite /\ ~form.exportGltf
    /\ ev.arg.include_satellite_overlay /\ ev.arg.export_gltf

\* C39: 'Clear completed' removes exactly the registry entries whose status
\* is completed and keeps every other entry (pending, running, failed,
\* expired) in its original order.
C39_ClearRemovesOnlyCompleted ==
    [][ev'.op = "clearCompleted"
       => activeJobs' = SelectSeq(activeJobs, LAMBDA job : job.status # "completed")]_vars

====
